---- MODULE Spec2Model ----
(***************************************************************************)
(* Stripe payment failure monitor (src/index.js): an express application   *)
(* with a bounded in-memory activity log, a webhook handler that renders   *)
(* and mails an alert for charge.failed / invoice.payment_failed events,   *)
(* a manual test trigger and three read-only endpoints.                    *)
(*                                                                         *)
(* Node runs every handler on one event loop: the code between two awaits  *)
(* of real I/O is one atomic step.  The only await on I/O is the call of   *)
(* gmail.users.messages.send inside sendEmail, so a request that mails is  *)
(* two steps (up to the send, and from the send's settlement on) and every *)
(* other request is one step.                                              *)
(*                                                                         *)
(* Not modelled: the wall-clock values (the timestamp of a log entry,      *)
(* timestamp/uptime of /health), which no code path reads back; the        *)
(* base64url encoding of the raw mail; the emoji that open the subjects    *)
(* and headings.                                                           *)
(***************************************************************************)
EXTENDS Integers, Sequences, FiniteSets, TLC

\* ------------------------------------------------------------------------
\* Bounds of the model
\* ------------------------------------------------------------------------
\* Requests that arrive in one behaviour (request r is the r-th arrival).
MaxRequests == 2
\* Ignored webhooks handled back to back by the log-filling workload: with
\* the startup entry they make 1 + 2 * MaxFill appends.
MaxFill == 52
\* Requests that arrive after the log-filling workload.
MaxLateRequests == 2
\* Largest amount, in minor units, of the range of amounts rendered.
MaxAmount == 120

\* ------------------------------------------------------------------------
\* Program constants
\* ------------------------------------------------------------------------
\* if (logs.length > 100) logs.shift()
MaxLogs == 100
\* logs.slice(-20)
LogsWindow == 20
\* process.env.PORT || 3000
PORT == 3000

Reqs == 1..MaxRequests

Max(a, b) == IF a > b THEN a ELSE b

Has(obj, field) == field \in DOMAIN obj

\* ------------------------------------------------------------------------
\* The activity log
\* ------------------------------------------------------------------------
\* addLog without the trim, and addLog trimming at the wrong end.
addLogNoShift(l, message) == Append(l, [message |-> message])

addLogPop(l, message) ==
    LET pushed == Append(l, [message |-> message])
    IN  IF Len(pushed) > MaxLogs THEN SubSeq(pushed, 1, MaxLogs) ELSE pushed

\* logs.push({timestamp, message}); if (logs.length > 100) logs.shift()
addLog(l, message) ==
    LET pushed == Append(l, [message |-> message])
    IN  IF Len(pushed) > MaxLogs THEN Tail(pushed) ELSE pushed

\* The addLog calls of one atomic step, in program order.
RECURSIVE addLogs(_, _)
addLogs(l, messages) ==
    IF messages = <<>> THEN l
    ELSE addLogs(addLog(l, Head(messages)), Tail(messages))

\* Array.prototype.slice(begin) for a negative begin: the last -begin
\* elements, the whole array when it is shorter.
SliceFromEnd(l, n) ==
    LET from == Max(Len(l) - n, 0)
    IN  SubSeq(l, from + 1, Len(l))

\* ------------------------------------------------------------------------
\* Inputs
\* ------------------------------------------------------------------------
\* Detail (error.message) of a rejected gmail.users.messages.send.
Details == {"quota exceeded", "invalid_grant"}

\* Outcomes of one gmail.users.messages.send call that settles.
Outcomes == {[ok |-> TRUE]} \cup {[ok |-> FALSE, message |-> d] : d \in Details}

\* Parsed webhook payloads.  A JS property that is undefined is a field the
\* record does not have.
ChargeObject ==
    [id |-> "ch_1", amount |-> 2599, currency |-> "usd",
     created |-> 1700000000, customer |-> "cus_1"]
InvoiceObject ==
    [id |-> "in_1", amount_due |-> 1000, currency |-> "eur", customer |-> "cus_2",
     attempt_count |-> 1, next_payment_attempt |-> 1700003600]

Events ==
    { [type |-> "charge.failed", data |-> [object |-> ChargeObject]],
      \* guest checkout, 5 minor units
      [type |-> "charge.failed",
       data |-> [object |-> [id |-> "ch_2", amount |-> 5, currency |-> "eur",
                             created |-> 1700000000]]],
      \* no currency
      [type |-> "charge.failed",
       data |-> [object |-> [id |-> "ch_3", amount |-> 2599, created |-> 1700000000]]],
      \* no data.object
      [type |-> "charge.failed", data |-> [previous_attributes |-> "none"]],
      [type |-> "invoice.payment_failed", data |-> [object |-> InvoiceObject]],
      \* no amount_due, no further attempt
      [type |-> "invoice.payment_failed",
       data |-> [object |-> [id |-> "in_2", currency |-> "usd", customer |-> "cus_2",
                             attempt_count |-> 4]]],
      [type |-> "customer.created", data |-> [object |-> [id |-> "cus_3"]]],
      \* no type
      [id |-> "evt_1"] }

\* Well-formed events of the two monitored types, for the renderer: charges
\* of every amount up to MaxAmount and of some larger ones, in lower-case
\* and upper-case currencies, with and without a customer; invoices with
\* and without next_payment_attempt, 0 among its values.
Amounts == (0..MaxAmount) \cup {2599, 100000}
Currencies == {"usd", "eur", "USD"}
NextPaymentAttempts == {0, 1, 1700003600}

ChargeEvents ==
    {[type |-> "charge.failed",
      data |-> [object |-> [id |-> "ch_1", amount |-> a, currency |-> c,
                            created |-> 1700000000, customer |-> "cus_1"]]] :
        a \in Amounts, c \in Currencies}
    \cup
    {[type |-> "charge.failed",
      data |-> [object |-> [id |-> "ch_1", amount |-> a, currency |-> c,
                            created |-> 1700000000]]] :
        a \in Amounts, c \in Currencies}

InvoiceEvents ==
    {[type |-> "invoice.payment_failed",
      data |-> [object |-> [id |-> "in_1", amount_due |-> 1000, currency |-> "eur",
                            customer |-> "cus_2", attempt_count |-> 1,
                            next_payment_attempt |-> t]]] :
        t \in NextPaymentAttempts}
    \cup
    {[type |-> "invoice.payment_failed",
      data |-> [object |-> [id |-> "in_1", amount_due |-> 1000, currency |-> "eur",
                            customer |-> "cus_2", attempt_count |-> 1]]]}

RenderRequests ==
    {[method |-> "POST", path |-> "/webhook", body |-> e] :
        e \in ChargeEvents \cup InvoiceEvents}

\* Requests as the express handlers see them.  A POST /webhook without the
\* body field is a request whose body express.json() did not parse
\* (req.body undefined).
WebhookRequests ==
    {[method |-> "POST", path |-> "/webhook"]}
        \cup {[method |-> "POST", path |-> "/webhook", body |-> e] : e \in Events}
TestRequest == [method |-> "POST", path |-> "/test"]
QueryRequests == {[method |-> "GET", path |-> p] : p \in {"/", "/health", "/logs"}}
Requests == WebhookRequests \cup {TestRequest} \cup QueryRequests
NoRequest == [method |-> "none", path |-> "none"]

\* ------------------------------------------------------------------------
\* Rendering
\* ------------------------------------------------------------------------
\* `${x.f}` of a string property: "undefined" when the property is missing.
Interpolate(obj, field) == IF Has(obj, field) THEN obj[field] ELSE "undefined"

\* `${x.f}` of a numeric property.
InterpolateNumber(obj, field) ==
    IF Has(obj, field) THEN ToString(obj[field]) ELSE "undefined"

\* x.f || fallback, for a string property: undefined and "" are falsy.
OrElse(obj, field, fallback) ==
    IF Has(obj, field) /\ obj[field] # "" THEN obj[field] ELSE fallback

\* Message of the TypeError raised by reading a property of undefined.
TypeErrorReading(property) ==
    "Cannot read properties of undefined (reading '" \o property \o "')"

\* A formatting that does not pad the remainder to two digits.
ToFixed2Unpadded(n) ==
    LET a == IF n < 0 THEN -n ELSE n
    IN  (IF n < 0 THEN "-" ELSE "") \o ToString(a \div 100) \o "."
            \o ToString(a % 100)

\* (n / 100).toFixed(2) for an integer n of minor units: the integer part,
\* a point, and the two-digit remainder.
ToFixed2(n) ==
    LET a == IF n < 0 THEN -n ELSE n
        cents == a % 100
    IN  (IF n < 0 THEN "-" ELSE "") \o ToString(a \div 100) \o "."
            \o (IF cents < 10 THEN "0" ELSE "") \o ToString(cents)

\* (x.f / 100).toFixed(2): undefined / 100 is NaN, and NaN.toFixed(2) is "NaN".
AmountString(obj, field) == IF Has(obj, field) THEN ToFixed2(obj[field]) ELSE "NaN"

\* String.prototype.toUpperCase on the currency codes of the inputs.
toUpperCase(s) ==
    CASE s = "usd" -> "USD"
      [] s = "eur" -> "EUR"
      [] OTHER -> s

\* The decimal digits of seconds * 1000 (a JS number: the product does not
\* wrap at 32 bits).
Millis(seconds) == IF seconds = 0 THEN "0" ELSE ToString(seconds) \o "000"

\* new Date(seconds * 1000).toLocaleString(): a rendering of the instant in
\* milliseconds; new Date(NaN) renders as "Invalid Date".
LocaleString(obj, field) ==
    IF Has(obj, field) THEN "Date(" \o Millis(obj[field]) \o ")"
    ELSE "Invalid Date"

\* invoice.next_payment_attempt ? new Date(...).toLocaleString() : 'No retry scheduled'
\* (undefined and 0 are falsy).
NextAttempt(invoice) ==
    IF Has(invoice, "next_payment_attempt") /\ invoice.next_payment_attempt # 0
    THEN LocaleString(invoice, "next_payment_attempt")
    ELSE "No retry scheduled"

\* What a call returns or throws.
Thrown(message) == [kind |-> "throw", message |-> message]
Content(subject, body) == [kind |-> "content", subject |-> subject, body |-> body]
\* {subject: undefined, body: undefined}
NoContent == [kind |-> "undefined"]

ChargeContent(charge) ==
    LET amount == AmountString(charge, "amount")
        currency == toUpperCase(charge.currency)
    IN  Content("Payment Failure Alert - $" \o amount \o " " \o currency,
                "<h2>Charge Failed</h2>"
                \o "<p>Amount: $" \o amount \o " " \o currency \o "</p>"
                \o "<p>Customer ID: " \o OrElse(charge, "customer", "Guest") \o "</p>"
                \o "<p>Failure Code: " \o OrElse(charge, "failure_code", "Unknown") \o "</p>"
                \o "<p>Failure Message: "
                \o OrElse(charge, "failure_message", "No details provided") \o "</p>"
                \o "<p>Charge ID: " \o Interpolate(charge, "id") \o "</p>"
                \o "<p>Time: " \o LocaleString(charge, "created") \o "</p>"
                \o "<a href=https://dashboard.stripe.com/payments/"
                \o Interpolate(charge, "id") \o ">Open Charge</a>")

InvoiceContent(invoice) ==
    LET amount == AmountString(invoice, "amount_due")
        currency == toUpperCase(invoice.currency)
    IN  Content("Subscription Payment Failure - $" \o amount \o " " \o currency,
                "<h2>Invoice Payment Failed</h2>"
                \o "<p>Amount: $" \o amount \o " " \o currency \o "</p>"
                \o "<p>Customer ID: " \o Interpolate(invoice, "customer") \o "</p>"
                \o "<p>Invoice Number: " \o OrElse(invoice, "number", "Draft") \o "</p>"
                \o "<p>Subscription ID: " \o OrElse(invoice, "subscription", "N/A") \o "</p>"
                \o "<p>Attempt Count: " \o InterpolateNumber(invoice, "attempt_count")
                \o "</p>"
                \o "<p>Next Attempt: " \o NextAttempt(invoice) \o "</p>"
                \o "<a href=https://dashboard.stripe.com/invoices/"
                \o Interpolate(invoice, "id") \o ">Open Invoice</a>")

\* Reading data.object and the first properties of it: the TypeError of the
\* first read of undefined, or "none".
ObjectError(event) ==
    IF ~Has(event, "data") THEN TypeErrorReading("object")
    ELSE IF ~Has(event.data, "object") THEN TypeErrorReading("customer")
    ELSE IF ~Has(event.data.object, "currency") THEN TypeErrorReading("toUpperCase")
    ELSE "none"

formatFailureEmail(event) ==
    IF Has(event, "type") /\ event.type = "charge.failed"
    THEN IF ObjectError(event) # "none"
         THEN Thrown(ObjectError(event))
         ELSE ChargeContent(event.data.object)
    ELSE IF Has(event, "type") /\ event.type = "invoice.payment_failed"
    THEN IF ObjectError(event) # "none"
         THEN Thrown(ObjectError(event))
         ELSE InvoiceContent(event.data.object)
    ELSE NoContent

\* ------------------------------------------------------------------------
\* State
\* ------------------------------------------------------------------------
VARIABLES
    started,    \* the listen callback has run
    crashed,    \* an exception left a handler uncaught
    logs,       \* let logs = []
    appended,   \* history: every message passed to addLog, in call order
    filled,     \* history: requests handled by the log-filling workload
    pc,         \* per request: "idle", "sending" (awaiting the send), "done"
    inbox,      \* per request: the request as it arrived
    mail,       \* per request: the message handed to gmail.users.messages.send
    delivery,   \* per request: how that send settled
    responses,  \* per request: the res.json calls made, in order
    trace,      \* history, per request: the messages it passed to addLog
    renders,    \* history, per request: calls of formatFailureEmail
    sends       \* history, per request: calls of gmail.users.messages.send

vars == <<started, crashed, logs, appended, filled, pc, inbox, mail, delivery,
          responses, trace, renders, sends>>

NoMail == [to |-> "none"]
NotSent == [state |-> "none"]
Pending == [state |-> "pending"]
Settled(outcome) ==
    IF outcome.ok THEN [state |-> "resolved"]
    ELSE [state |-> "rejected", message |-> outcome.message]

Init ==
    /\ started = FALSE
    /\ crashed = FALSE
    /\ logs = <<>>
    /\ appended = <<>>
    /\ filled = 0
    /\ pc = [r \in Reqs |-> "idle"]
    /\ inbox = [r \in Reqs |-> NoRequest]
    /\ mail = [r \in Reqs |-> NoMail]
    /\ delivery = [r \in Reqs |-> NotSent]
    /\ responses = [r \in Reqs |-> <<>>]
    /\ trace = [r \in Reqs |-> <<>>]
    /\ renders = [r \in Reqs |-> 0]
    /\ sends = [r \in Reqs |-> 0]

\* ------------------------------------------------------------------------
\* The handlers, as the effect of one atomic step
\* ------------------------------------------------------------------------
Response(status, body) == [status |-> status, body |-> body]

\* res.json({ received: true, processed: true })
Acknowledged == Response(200, [received |-> TRUE, processed |-> TRUE])

\* `${event.type}`
TypeString(event) == Interpolate(event, "type")

\* A classification that lets every event through to the renderer.
IsMonitoredAny(event) == TRUE

\* event.type === 'charge.failed' || event.type === 'invoice.payment_failed'
IsMonitored(event) ==
    Has(event, "type") /\ event.type \in {"charge.failed", "invoice.payment_failed"}

\* The inner try without formatFailureEmail inside it, under no outer try.
EnclosingCatchSendOnly(site) ==
    CASE site = "event.type" -> "webhook.outer"
      [] site = "sendEmail" -> "webhook.inner"
      [] site = "test.sendEmail" -> "test"
      [] OTHER -> "none"

\* The try block around each place that can throw: the catch that receives
\* the exception ("none": no try block encloses the place).
EnclosingCatch(site) ==
    CASE site = "event.type" -> "webhook.outer"
      [] site = "formatFailureEmail" -> "webhook.inner"
      [] site = "sendEmail" -> "webhook.inner"
      [] site = "test.sendEmail" -> "test"
      [] OTHER -> "none"

\* An inner catch without the return: the handler goes on to line 158.
InnerCatchFallsThrough == FALSE

\* return res.status(500).json(...): the inner catch leaves the handler.
InnerCatchReturns == TRUE

\* res.status(500).json({ error: 'Failed to send notification' })
InnerCatchResponse(message) == Response(500, [error |-> "Failed to send notification"])

\* The effect of a step: the addLog calls and res.json calls it makes, where
\* it leaves the request, and the mail it hands to the send (if any).
Effect(messages, replies, at, message, rendered) ==
    [messages |-> messages, responses |-> replies, pc |-> at, mail |-> message,
     renders |-> rendered]

\* catch (error) of the inner try of POST /webhook, after the step has
\* logged `before`.
InnerCatchRetrying(event, message, before, rendered) ==
    Effect(before \o <<"Failed to send notification for " \o TypeString(event)
                        \o ": " \o message>>,
           <<>>, "sending",
           [to |-> "blakeecom02@gmail.com", subject |-> "retry", body |-> "retry"],
           rendered)

\* The inner catch logging the failure without error.message.
InnerCatchNoDetail(event, message, before, rendered) ==
    Effect(before \o <<"Failed to send notification for " \o TypeString(event)>>,
           <<InnerCatchResponse(message)>>, "done", NoMail, rendered)

InnerCatch(event, message, before, rendered) ==
    Effect(before \o <<"Failed to send notification for " \o TypeString(event)
                        \o ": " \o message>>,
           <<InnerCatchResponse(message)>>
                \o (IF InnerCatchReturns THEN <<>> ELSE <<Acknowledged>>),
           "done", NoMail, rendered)

\* catch (error) of the outer try of POST /webhook.
OuterCatch(message, before, rendered) ==
    Effect(before \o <<"Webhook error: " \o message>>,
           <<Response(500, [error |-> message])>>, "done", NoMail, rendered)

\* The catch of POST /test answering with a fixed text, as the inner catch
\* of POST /webhook does.
TestCatchFixedText(message, before) ==
    Effect(before \o <<"Test failed: " \o message>>,
           <<Response(500, [error |-> "Test failed"])>>, "done", NoMail, 0)

\* catch (error) of POST /test.
TestCatch(message, before) ==
    Effect(before \o <<"Test failed: " \o message>>,
           <<Response(500, [error |-> message])>>, "done", NoMail, 0)

\* An exception with `message` is thrown at `site`, after the step has
\* logged `before`: the enclosing catch runs, or the exception leaves the
\* handler and the process dies of it.
Caught(site, event, message, before, rendered) ==
    CASE EnclosingCatch(site) = "webhook.inner" ->
            InnerCatch(event, message, before, rendered)
      [] EnclosingCatch(site) = "webhook.outer" -> OuterCatch(message, before, rendered)
      [] EnclosingCatch(site) = "test" -> TestCatch(message, before)
      [] OTHER -> Effect(before, <<>>, "crashed", NoMail, rendered)

\* sendEmail up to the await of gmail.users.messages.send: the message it
\* builds ('Subject: ' + undefined is "Subject: undefined").
sendEmail(content) ==
    [to |-> "blakeecom02@gmail.com",
     subject |-> IF content.kind = "content" THEN content.subject ELSE "undefined",
     body |-> IF content.kind = "content" THEN content.body ELSE "undefined"]

\* sendEmail settling without its addLog calls.
sendEmailSettledSilently(outcome) ==
    IF outcome.ok
    THEN [messages |-> <<>>, threw |-> FALSE]
    ELSE [messages |-> <<>>, threw |-> TRUE, message |-> outcome.message]

\* sendEmail from the settlement of the send on: the entry it logs, and
\* whether it returns true or rethrows.
sendEmailSettled(outcome) ==
    IF outcome.ok
    THEN [messages |-> <<"Email sent successfully to blakeecom02@gmail.com">>,
          threw |-> FALSE]
    ELSE [messages |-> <<"Failed to send email: " \o outcome.message>>,
          threw |-> TRUE, message |-> outcome.message]

\* The else branch without its addLog.
IgnoredSilently(event, received) ==
    Effect(received, <<Acknowledged>>, "done", NoMail, 0)

\* The else branch of the classification, and the response after it.
Ignored(event, received) ==
    Effect(received \o <<"Ignored webhook event: " \o TypeString(event)>>,
           <<Acknowledged>>, "done", NoMail, 0)

\* The handler logging the receipt of an event after it has classified it:
\* an event that is not monitored is logged as ignored first.
WebhookReceivedLoggedLate(req) ==
    IF ~Has(req, "body")
    THEN Caught("event.type", NoRequest, TypeErrorReading("type"), <<>>, 0)
    ELSE LET event == req.body
             received == <<"Received webhook: " \o TypeString(event)>>
         IN  IF IsMonitored(event)
             THEN LET content == formatFailureEmail(event)
                  IN  IF content.kind = "throw"
                      THEN Caught("formatFailureEmail", event,
                                  content.message, received, 1)
                      ELSE Effect(received, <<>>, "sending", sendEmail(content), 1)
             ELSE Effect(<<"Ignored webhook event: " \o TypeString(event)>> \o received,
                         <<Acknowledged>>, "done", NoMail, 0)

\* POST /webhook, from the arrival of the request to the await of the send
\* or to the response.
WebhookReceived(req) ==
    IF ~Has(req, "body")
    THEN Caught("event.type", NoRequest, TypeErrorReading("type"), <<>>, 0)
    ELSE LET event == req.body
             received == <<"Received webhook: " \o TypeString(event)>>
         IN  IF IsMonitored(event)
             THEN LET content == formatFailureEmail(event)
                  IN  IF content.kind = "throw"
                      THEN Caught("formatFailureEmail", event,
                                  content.message, received, 1)
                      ELSE Effect(received, <<>>, "sending", sendEmail(content), 1)
             ELSE Ignored(event, received)

\* The handler with sendEmail not awaited: the notification is logged as
\* sent before the outcome of the send is known.
WebhookSettledUnawaited(req, outcome) ==
    LET event == req.body
        sent == sendEmailSettled(outcome)
        note == <<"Payment failure notification sent for event: " \o TypeString(event)>>
    IN  IF sent.threw
        THEN Caught("sendEmail", event, sent.message, note \o sent.messages, 0)
        ELSE Effect(note \o sent.messages, <<Acknowledged>>, "done", NoMail, 0)

\* POST /webhook, from the settlement of the send to the response.
WebhookSettled(req, outcome) ==
    LET event == req.body
        sent == sendEmailSettled(outcome)
    IN  IF sent.threw
        THEN Caught("sendEmail", event, sent.message, sent.messages, 0)
        ELSE Effect(sent.messages
                        \o <<"Payment failure notification sent for event: "
                                \o TypeString(event)>>,
                    <<Acknowledged>>, "done", NoMail, 0)

\* The fixed notification of POST /test.
TestContent ==
    Content("Test: Stripe Payment Failure Monitor",
            "<h2>Test Notification</h2>"
            \o "<p>This is a test notification from your Stripe Payment Failure Monitor.</p>"
            \o "<p>Service: Running properly</p>"
            \o "<p>Monitoring: charge.failed, invoice.payment_failed</p>"
            \o "<p>Email: blakeecom02@gmail.com</p>")

\* POST /test, from the arrival of the request to the await of the send.
TestReceived == Effect(<<"Manual test triggered">>, <<>>, "sending", sendEmail(TestContent), 0)

\* POST /test, from the settlement of the send to the response.
TestSettled(outcome) ==
    LET sent == sendEmailSettled(outcome)
    IN  IF sent.threw
        THEN Caught("test.sendEmail", NoRequest, sent.message,
                    sent.messages, 0)
        ELSE Effect(sent.messages,
                    <<Response(200, [success |-> TRUE,
                                     message |-> "Test notification sent successfully",
                                     email |-> "blakeecom02@gmail.com"])>>,
                    "done", NoMail, 0)

\* GET /, GET /health, GET /logs
Queried(req, l) ==
    CASE req.path = "/health" ->
            Response(200, [status |-> "healthy", logs_count |-> Len(l)])
      [] req.path = "/logs" ->
            Response(200, [logs |-> SliceFromEnd(l, LogsWindow), total_logs |-> Len(l)])
      [] OTHER ->
            Response(200, [service |-> "Stripe Payment Failure Monitor",
                           status |-> "running",
                           notification_email |-> "blakeecom02@gmail.com"])

\* ------------------------------------------------------------------------
\* Actions
\* ------------------------------------------------------------------------
\* The state after request r made the step with effect e.
Apply(r, e) ==
    /\ logs' = addLogs(logs, e.messages)
    /\ appended' = appended \o e.messages
    /\ trace' = [trace EXCEPT ![r] = @ \o e.messages]
    /\ responses' = [responses EXCEPT ![r] = @ \o e.responses]
    /\ pc' = [pc EXCEPT ![r] = e.pc]
    /\ crashed' = (crashed \/ e.pc = "crashed")
    /\ mail' = [mail EXCEPT ![r] = IF e.pc = "sending" THEN e.mail ELSE @]
    /\ renders' = [renders EXCEPT ![r] = @ + e.renders]
    /\ sends' = [sends EXCEPT ![r] = @ + (IF e.pc = "sending" THEN 1 ELSE 0)]

\* Requests are numbered in the order they arrive; none arrives before the
\* server listens or after the process died.
Arrives(r) ==
    /\ started
    /\ ~crashed
    /\ pc[r] = "idle"
    /\ IF r = 1 THEN TRUE ELSE pc[r - 1] # "idle"
    /\ r <= (IF filled = 0 THEN MaxRequests ELSE MaxLateRequests)

\* app.listen(PORT, () => addLog(`... started on port ${PORT}`))
Start ==
    /\ ~started
    /\ started' = TRUE
    /\ logs' = addLog(logs, "Stripe Payment Failure Monitor started on port "
                                \o ToString(PORT))
    /\ appended' = Append(appended, "Stripe Payment Failure Monitor started on port "
                                        \o ToString(PORT))
    /\ UNCHANGED <<crashed, filled, pc, inbox, mail, delivery, responses, trace,
                   renders, sends>>

\* A POST /webhook arrives and runs to its first suspension or to its end.
Webhook(r, req) ==
    /\ Arrives(r)
    /\ inbox' = [inbox EXCEPT ![r] = req]
    /\ Apply(r, WebhookReceived(req))
    /\ delivery' = [delivery EXCEPT ![r] =
                        IF WebhookReceived(req).pc = "sending" THEN Pending ELSE @]
    /\ UNCHANGED <<started, filled>>

\* A POST /test arrives and runs to the await of the send.
Test(r) ==
    /\ Arrives(r)
    /\ inbox' = [inbox EXCEPT ![r] = TestRequest]
    /\ Apply(r, TestReceived)
    /\ delivery' = [delivery EXCEPT ![r] = Pending]
    /\ UNCHANGED <<started, filled>>

\* Sends that settle only in the order they were issued: a pending send
\* holds back every later one.
SendSettlesInOrder(r, outcome) ==
    /\ ~crashed
    /\ pc[r] = "sending"
    /\ \A q \in Reqs : q < r => pc[q] # "sending"
    /\ delivery' = [delivery EXCEPT ![r] = Settled(outcome)]
    /\ Apply(r, IF inbox[r].path = "/test" THEN TestSettled(outcome)
                ELSE WebhookSettled(inbox[r], outcome))
    /\ UNCHANGED <<started, filled, inbox>>

\* The send of request r settles, and the handler runs to its end.
SendSettles(r, outcome) ==
    /\ ~crashed
    /\ pc[r] = "sending"
    /\ delivery' = [delivery EXCEPT ![r] = Settled(outcome)]
    /\ Apply(r, IF inbox[r].path = "/test" THEN TestSettled(outcome)
                ELSE WebhookSettled(inbox[r], outcome))
    /\ UNCHANGED <<started, filled, inbox>>

\* A query that records itself in the log it reports.
QueryLogged(r, req) ==
    /\ Arrives(r)
    /\ inbox' = [inbox EXCEPT ![r] = req]
    /\ Apply(r, Effect(<<"Served " \o req.path>>, <<Queried(req, logs)>>, "done",
                       NoMail, 0))
    /\ UNCHANGED <<started, filled, delivery>>

\* A GET / , GET /health or GET /logs arrives and is answered.
Query(r, req) ==
    /\ Arrives(r)
    /\ inbox' = [inbox EXCEPT ![r] = req]
    /\ Apply(r, Effect(<<>>, <<Queried(req, logs)>>, "done", NoMail, 0))
    /\ UNCHANGED <<started, filled, delivery>>

\* The n-th request of the log-filling workload: a webhook of a type that is
\* not monitored, each with a type of its own.
FillRequest(n) ==
    [method |-> "POST", path |-> "/webhook",
     body |-> [type |-> "unmonitored." \o ToString(n)]]

\* The log-filling workload: before any other request arrives, webhooks of
\* unmonitored types are handled one after the other.
Fill ==
    /\ started
    /\ ~crashed
    /\ pc[1] = "idle"
    /\ filled < MaxFill
    /\ filled' = filled + 1
    /\ logs' = addLogs(logs, WebhookReceived(FillRequest(filled + 1)).messages)
    /\ appended' = appended \o WebhookReceived(FillRequest(filled + 1)).messages
    /\ UNCHANGED <<started, crashed, pc, inbox, mail, delivery, responses, trace,
                   renders, sends>>

Serve ==
    \/ \E r \in Reqs, req \in WebhookRequests : Webhook(r, req)
    \/ \E r \in Reqs : Test(r)
    \/ \E r \in Reqs, outcome \in Outcomes : SendSettles(r, outcome)
    \/ \E r \in Reqs, req \in QueryRequests : Query(r, req)

Next == Start \/ Serve

Spec == Init /\ [][Next]_vars

\* The server under the log-filling workload followed by MaxLateRequests
\* requests of any kind.
NextLog ==
    \/ Start
    \/ Fill
    \/ \E r \in Reqs, req \in WebhookRequests : filled = MaxFill /\ Webhook(r, req)
    \/ \E r \in Reqs : filled = MaxFill /\ Test(r)
    \/ \E r \in Reqs, outcome \in Outcomes : filled = MaxFill /\ SendSettles(r, outcome)
    \/ \E r \in Reqs, req \in QueryRequests : filled = MaxFill /\ Query(r, req)

SpecLog == Init /\ [][NextLog]_vars

\* The server when the send of the first request never returns: every other
\* send returns, and the event loop runs the continuation of a send that
\* has settled.
NextHung ==
    \/ Start
    \/ \E r \in Reqs, req \in WebhookRequests : Webhook(r, req)
    \/ \E r \in Reqs : Test(r)
    \/ \E r \in Reqs \ {1}, outcome \in Outcomes : SendSettles(r, outcome)
    \/ \E r \in Reqs, req \in QueryRequests : Query(r, req)

SpecHung ==
    /\ Init
    /\ [][NextHung]_vars
    /\ \A r \in Reqs \ {1} : WF_vars(\E outcome \in Outcomes : SendSettles(r, outcome))

\* The server queried at every length of the log: the log-filling workload,
\* stopped anywhere, followed by test triggers and queries.
NextQuery ==
    \/ Start
    \/ Fill
    \/ \E r \in Reqs : Test(r)
    \/ \E r \in Reqs, outcome \in Outcomes : SendSettles(r, outcome)
    \/ \E r \in Reqs, req \in QueryRequests : Query(r, req)

SpecQuery == Init /\ [][NextQuery]_vars

\* The server receiving one well-formed event of a monitored type, rendering
\* it and sending the notification.
NextRender ==
    \/ Start
    \/ \E req \in RenderRequests : Webhook(1, req)
    \/ \E outcome \in Outcomes : SendSettles(1, outcome)

SpecRender == Init /\ [][NextRender]_vars

\* ------------------------------------------------------------------------
\* Vocabulary of the properties
\* ------------------------------------------------------------------------
Min(a, b) == IF a < b THEN a ELSE b

\* The messages of a sequence of log entries.
Messages(entries) == [i \in 1..Len(entries) |-> entries[i].message]

\* The last n elements of a sequence that has at least n.
LastN(seq, n) == SubSeq(seq, Len(seq) - n + 1, Len(seq))

\* The messages passed to addLog by the step being taken.
NewMessages == SubSeq(appended', Len(appended) + 1, Len(appended'))

\* Request r is answered by GET /logs in the step being taken.
LogsAnswered(r) ==
    /\ pc[r] = "idle"
    /\ pc'[r] = "done"
    /\ inbox'[r].path = "/logs"

\* Request r is a webhook that carried a parsed event and has been handled
\* to its end.
HandledEvent(r) ==
    /\ pc[r] = "done"
    /\ inbox[r].path = "/webhook"
    /\ Has(inbox[r], "body")

\* The type of the event of request r as the log prints it.
TypeOf(r) == IF Has(inbox[r].body, "type") THEN inbox[r].body.type ELSE "undefined"

\* The event of request r has one of the two monitored types.
OfMonitoredType(r) == TypeOf(r) \in {"charge.failed", "invoice.payment_failed"}

\* ------------------------------------------------------------------------
\* C1
\* ------------------------------------------------------------------------
\* C1: the activity log never holds more than 100 entries, whichever handler
\* or startup step appends; every step leaves in the log the last entries
\* of the old log followed by the entries it appends, so a step that makes
\* k appends to a log of 100 entries evicts exactly the k oldest ones, one
\* per append.
C1_LogBounded ==
    [][ LET k == Len(NewMessages)
            all == Messages(logs) \o NewMessages
        IN  /\ Len(logs') <= MaxLogs
            /\ Messages(logs') = LastN(all, Min(Len(all), MaxLogs))
            /\ Len(logs) = MaxLogs => Messages(logs') = SubSeq(all, k + 1, MaxLogs + k)
      ]_vars

\* A full log onto which two interleaved late requests (one of them the
\* manual test) have appended.
C1_Witness ==
    /\ Len(logs) = MaxLogs
    /\ Len(appended) > MaxLogs + 4
    /\ \E r1, r2 \in Reqs :
          /\ r1 # r2
          /\ pc[r1] = "done" /\ inbox[r1].path = "/test"
          /\ pc[r2] = "done" /\ inbox[r2].path = "/webhook" /\ sends[r2] = 1
          /\ Len(trace[r1]) = 3 /\ Len(trace[r2]) = 3

\* ------------------------------------------------------------------------
\* C2
\* ------------------------------------------------------------------------
\* C2 as stated: after N appends GET /logs reports min(N,100) entries and
\* returns exactly the last min(N,100) appended messages in append order.
C2_RecentReturnsLast100 ==
    [][ \A r \in Reqs :
            LogsAnswered(r) =>
                LET N == Len(appended)
                    answer == responses'[r][1].body
                IN  /\ answer.total_logs = Min(N, MaxLogs)
                    /\ Messages(answer.logs) = LastN(appended, Min(N, MaxLogs))
      ]_vars

\* C2 amended: after N appends the log holds min(N,100) entries, exactly the
\* last min(N,100) appended messages in append order, and after 105 appends
\* it holds 100 entries and none of the first 5 messages; GET /logs reports
\* min(N,100) as the size and returns the last min(N,20) messages.
C2_LogHoldsLast100 ==
    [][ LET N == Len(appended')
        IN  /\ Len(logs') = Min(N, MaxLogs)
            /\ Messages(logs') = LastN(appended', Min(N, MaxLogs))
            /\ N = 105 =>
                  /\ Len(logs') = 100
                  /\ \A i \in 1..5 : \A j \in 1..Len(logs') :
                        logs'[j].message # appended'[i]
            /\ \A r \in Reqs :
                  LogsAnswered(r) =>
                      LET answer == responses'[r][1].body
                      IN  /\ answer.total_logs = Min(N, MaxLogs)
                          /\ Messages(answer.logs) = LastN(appended', Min(N, LogsWindow))
      ]_vars

\* GET /logs answered after at least 105 appends.
C2_Witness ==
    /\ Len(appended) >= 105
    /\ \E r \in Reqs :
          /\ pc[r] = "done"
          /\ inbox[r].path = "/logs"
          /\ responses[r][1].body.total_logs = MaxLogs
          /\ Len(responses[r][1].body.logs) = LogsWindow

\* ------------------------------------------------------------------------
\* C3
\* ------------------------------------------------------------------------
\* The outcome the handling of the event of request r reached: Ignored for
\* a type that is not monitored, Processed for a monitored type whose send
\* succeeded, Failed for a monitored type whose rendering or send failed.
Outcome(r) ==
    IF ~OfMonitoredType(r) THEN "Ignored"
    ELSE IF delivery[r].state = "resolved" THEN "Processed"
    ELSE "Failed"

\* C3: the result the caller of a handled event receives tells Processed,
\* Ignored and Failed apart: two events that reached different outcomes
\* were answered differently.
C3_OutcomesDistinguishable ==
    \A r1, r2 \in Reqs :
        (HandledEvent(r1) /\ HandledEvent(r2) /\ Outcome(r1) # Outcome(r2))
            => responses[r1] # responses[r2]

\* ------------------------------------------------------------------------
\* C4
\* ------------------------------------------------------------------------
\* C4 as stated: handling an event whose type is not monitored appends
\* exactly one entry to the activity log.
C4_IgnoredAppendsOne ==
    \A r \in Reqs :
        (HandledEvent(r) /\ ~OfMonitoredType(r)) => Len(trace[r]) = 1

\* C4 amended: handling an event whose type is not monitored appends exactly
\* two entries, "Received webhook: {type}" and then "Ignored webhook event:
\* {type}".
C4_IgnoredAppendsTwo ==
    \A r \in Reqs :
        (HandledEvent(r) /\ ~OfMonitoredType(r)) =>
            trace[r] = << "Received webhook: " \o TypeOf(r),
                          "Ignored webhook event: " \o TypeOf(r) >>

\* Both unmonitored events, the one with an unknown type and the one
\* without a type, have been handled.
C4_Witness ==
    \E r1, r2 \in Reqs :
        /\ HandledEvent(r1) /\ TypeOf(r1) = "customer.created"
        /\ HandledEvent(r2) /\ TypeOf(r2) = "undefined"

\* ------------------------------------------------------------------------
\* C5
\* ------------------------------------------------------------------------
\* C5 as stated: handling an event of a monitored type appends exactly two
\* entries, whether the delivery succeeds or fails.
C5_MonitoredAppendsTwo ==
    \A r \in Reqs :
        (HandledEvent(r) /\ OfMonitoredType(r)) => Len(trace[r]) = 2

\* C5 amended: handling an event of a monitored type appends exactly three
\* entries when the send was invoked ("Received", the entry sendEmail logs
\* for the outcome of the send, the terminal entry), whether the delivery
\* succeeds or fails, and exactly two ("Received" and the terminal "Failed
\* to send notification" entry) when rendering throws before the send.
C5_MonitoredAppendsThree ==
    \A r \in Reqs :
        (HandledEvent(r) /\ OfMonitoredType(r)) =>
            /\ trace[r][1] = "Received webhook: " \o TypeOf(r)
            /\ delivery[r].state = "resolved" =>
                  trace[r] = << "Received webhook: " \o TypeOf(r),
                                "Email sent successfully to blakeecom02@gmail.com",
                                "Payment failure notification sent for event: "
                                    \o TypeOf(r) >>
            /\ delivery[r].state = "rejected" =>
                  trace[r] = << "Received webhook: " \o TypeOf(r),
                                "Failed to send email: " \o delivery[r].message,
                                "Failed to send notification for " \o TypeOf(r)
                                    \o ": " \o delivery[r].message >>
            /\ delivery[r].state = "none" =>
                  /\ Len(trace[r]) = 2
                  /\ sends[r] = 0
                  /\ \E property \in {"object", "customer", "toUpperCase"} :
                        trace[r][2] = "Failed to send notification for " \o TypeOf(r)
                                        \o ": " \o TypeErrorReading(property)

\* One monitored event delivered and another one whose delivery failed.
C5_Witness ==
    \E r1, r2 \in Reqs :
        /\ HandledEvent(r1) /\ OfMonitoredType(r1) /\ delivery[r1].state = "resolved"
        /\ HandledEvent(r2) /\ OfMonitoredType(r2) /\ delivery[r2].state = "rejected"

\* ------------------------------------------------------------------------
\* C6
\* ------------------------------------------------------------------------
\* C6: no exception leaves a handler: the process never dies, a request is
\* suspended only while its send is pending, every webhook whose handling
\* ended (among them those whose rendering threw, whose send failed, or whose
\* event had no readable type) was answered and logged, and the next request
\* is still accepted.
C6_NothingEscapes ==
    /\ ~crashed
    /\ \A r \in Reqs :
          /\ pc[r] \in {"idle", "sending", "done"}
          /\ pc[r] = "sending" <=> delivery[r] = Pending
          /\ (pc[r] = "done" /\ inbox[r].path = "/webhook") =>
                /\ Len(responses[r]) >= 1
                /\ Len(trace[r]) >= 1
          /\ (started /\ pc[r] = "idle" /\ (IF r = 1 THEN TRUE ELSE pc[r - 1] # "idle")) =>
                ENABLED (\E req \in WebhookRequests : Webhook(r, req))

\* A webhook whose rendering threw, followed by a webhook that was accepted
\* afterwards and whose send failed.
C6_Witness ==
    \E r1, r2 \in Reqs :
        /\ r1 < r2
        /\ HandledEvent(r1) /\ OfMonitoredType(r1) /\ renders[r1] = 1 /\ sends[r1] = 0
        /\ HandledEvent(r2) /\ delivery[r2].state = "rejected"

\* ------------------------------------------------------------------------
\* C7
\* ------------------------------------------------------------------------
\* C7: when the send of a monitored event fails with detail d, the response
\* to the caller is an error that carries d.
C7_ResultCarriesDetail ==
    \A r \in Reqs :
        (HandledEvent(r) /\ delivery[r].state = "rejected") =>
            /\ Len(responses[r]) = 1
            /\ responses[r][1].status = 500
            /\ \E prefix \in {"", "Failed to send notification: "} :
                  responses[r][1].body.error = prefix \o delivery[r].message

\* ------------------------------------------------------------------------
\* C8
\* ------------------------------------------------------------------------
\* C8: the send is invoked at most once per request; once it failed the
\* request is at its end, with that one invocation.
C8_SendAtMostOnce ==
    \A r \in Reqs :
        /\ sends[r] <= 1
        /\ delivery[r].state = "rejected" => (pc[r] = "done" /\ sends[r] = 1)

\* A webhook whose send failed has been handled to its end.
C8_Witness ==
    \E r \in Reqs :
        /\ HandledEvent(r)
        /\ delivery[r].state = "rejected"
        /\ sends[r] = 1

\* ------------------------------------------------------------------------
\* C9
\* ------------------------------------------------------------------------
\* The payload of the monitored event of request r lacks data.object or the
\* amount (amount, amount_due) or currency the renderer reads from it.
LacksRequiredField(r) ==
    LET event == inbox[r].body
    IN  \/ ~Has(event, "data")
        \/ ~Has(event.data, "object")
        \/ ~Has(event.data.object, "currency")
        \/ TypeOf(r) = "charge.failed" /\ ~Has(event.data.object, "amount")
        \/ TypeOf(r) = "invoice.payment_failed" /\ ~Has(event.data.object, "amount_due")

\* C9: a monitored event whose payload lacks a required field is handled as
\* a delivery failure: the send is not invoked and nothing is logged as
\* sent, the response is the error response, and the terminal entry is the
\* "Failed to send notification" entry of a failed delivery.
C9_MalformedIsFailed ==
    \A r \in Reqs :
        (HandledEvent(r) /\ OfMonitoredType(r) /\ LacksRequiredField(r)) =>
            /\ sends[r] = 0
            /\ delivery[r] = NotSent
            /\ responses[r] = <<Response(500, [error |-> "Failed to send notification"])>>
            /\ \E property \in {"object", "customer", "toUpperCase"} :
                  trace[r][Len(trace[r])] =
                      "Failed to send notification for " \o TypeOf(r)
                          \o ": " \o TypeErrorReading(property)

\* ------------------------------------------------------------------------
\* C10
\* ------------------------------------------------------------------------
\* C10: for an event whose type is not monitored neither the renderer nor
\* the send is invoked, and no request ever hands the send a message with
\* an undefined subject or body.
C10_ClassifiedBeforeRendering ==
    /\ \A r \in Reqs :
          (inbox[r].path = "/webhook" /\ Has(inbox[r], "body") /\ ~OfMonitoredType(r)) =>
              /\ renders[r] = 0
              /\ sends[r] = 0
              /\ mail[r] = NoMail
              /\ delivery[r] = NotSent
    /\ \A r \in Reqs :
          mail[r] # NoMail => (mail[r].subject # "undefined" /\ mail[r].body # "undefined")

\* An unmonitored event has been handled while a monitored one, rendered,
\* awaits its send.
C10_Witness ==
    \E r1, r2 \in Reqs :
        /\ HandledEvent(r1) /\ ~OfMonitoredType(r1)
        /\ inbox[r2].path = "/webhook" /\ pc[r2] = "sending" /\ renders[r2] = 1

\* ------------------------------------------------------------------------
\* C11
\* ------------------------------------------------------------------------
\* C11: a send that never returns blocks only its own request.  While the
\* send of the first request is pending, the next request is still accepted,
\* as a webhook (which appends its "Received" entry) and as a log query; a
\* webhook received meanwhile is logged; and every other request that was
\* received is driven to its end, with a response.
C11_HungSendBlocksOnlyItself ==
    /\ [](\A r \in Reqs \ {1} :
            (pc[1] = "sending" /\ pc[r] = "idle" /\ pc[r - 1] # "idle") =>
                /\ ENABLED (\E req \in WebhookRequests :
                                Webhook(r, req) /\ Len(logs') > Len(logs))
                /\ ENABLED (\E req \in QueryRequests : Query(r, req)))
    /\ [][\A r \in Reqs \ {1} :
            (pc[1] = "sending" /\ pc[r] = "idle" /\ pc'[r] # "idle"
                /\ inbox'[r].path = "/webhook" /\ Has(inbox'[r], "body")) =>
                /\ Len(trace'[r]) >= 1
                /\ trace'[r][1] = "Received webhook: "
                                    \o (IF Has(inbox'[r].body, "type")
                                        THEN inbox'[r].body.type ELSE "undefined")
                /\ logs'[Len(logs')].message = trace'[r][Len(trace'[r])]
       ]_vars
    /\ \A r \in Reqs \ {1} :
            (pc[1] = "sending" /\ pc[r] # "idle")
                ~> (pc[1] = "sending" /\ pc[r] = "done" /\ Len(responses[r]) = 1)

\* The send of the first request is still pending while a later monitored
\* webhook has been handled to its end, its own send having settled.
C11_Witness ==
    /\ pc[1] = "sending"
    /\ \E r \in Reqs \ {1} :
          /\ HandledEvent(r)
          /\ sends[r] = 1
          /\ delivery[r].state \in {"resolved", "rejected"}
          /\ Len(trace[r]) = 3

\* ------------------------------------------------------------------------
\* C12
\* ------------------------------------------------------------------------
\* Request r, a webhook, is handled to its end by the step being taken,
\* its send having settled.
Completes(r) ==
    /\ pc[r] = "sending"
    /\ pc'[r] = "done"
    /\ inbox[r].path = "/webhook"

\* C12: when the handling of a charge.failed event ends because its send
\* failed with detail d, and no other request is in flight, the last entry
\* of the activity log at that moment is "Failed to send notification for
\* charge.failed: d" and the entry before it is "Failed to send email: d";
\* when no other request arrived at all, the entry before those is the
\* event's own "Received webhook" entry.
C12_FailureEntriesLast ==
    [][\A r \in Reqs :
          (Completes(r) /\ inbox[r].body.type = "charge.failed"
                /\ delivery'[r].state = "rejected"
                /\ \A q \in Reqs \ {r} : pc[q] # "sending") =>
              LET d == delivery'[r].message
                  n == Len(logs')
              IN  /\ n >= 3
                  /\ logs'[n].message
                        = "Failed to send notification for charge.failed: " \o d
                  /\ logs'[n - 1].message = "Failed to send email: " \o d
                  /\ (\A q \in Reqs \ {r} : pc[q] = "idle") =>
                        logs'[n - 2].message = "Received webhook: charge.failed"
      ]_vars

\* A charge.failed event, alone in flight, whose send failed with "quota
\* exceeded", has been handled to its end.
C12_Witness ==
    \E r \in Reqs :
        /\ HandledEvent(r)
        /\ TypeOf(r) = "charge.failed"
        /\ delivery[r] = [state |-> "rejected", message |-> "quota exceeded"]
        /\ \A q \in Reqs \ {r} : pc[q] = "idle"
        /\ logs[Len(logs)].message
              = "Failed to send notification for charge.failed: quota exceeded"

\* ------------------------------------------------------------------------
\* C13
\* ------------------------------------------------------------------------
\* The positions of message m among the entries request r appended.
Positions(r, m) == {i \in 1..Len(trace[r]) : trace[r][i] = m}

\* C13: a webhook request appends "Payment failure notification sent for
\* event: {type}" only once its send has succeeded and after its own "Email
\* sent successfully to blakeecom02@gmail.com" entry; a request whose send
\* failed, or has not settled, appended neither entry.
C13_SentEntriesOnlyAfterSuccess ==
    \A r \in Reqs :
        (inbox[r].path = "/webhook" /\ Has(inbox[r], "body")) =>
            LET sentNote == "Payment failure notification sent for event: " \o TypeOf(r)
                mailNote == "Email sent successfully to blakeecom02@gmail.com"
            IN  /\ \A i \in Positions(r, sentNote) :
                      /\ delivery[r].state = "resolved"
                      /\ \E j \in Positions(r, mailNote) : j < i
                /\ delivery[r].state # "resolved" =>
                      /\ Positions(r, sentNote) = {}
                      /\ Positions(r, mailNote) = {}
                /\ (pc[r] = "done" /\ delivery[r].state = "resolved") =>
                      /\ Cardinality(Positions(r, sentNote)) = 1
                      /\ Cardinality(Positions(r, mailNote)) = 1

\* One webhook delivered, with both entries, and one whose send failed.
C13_Witness ==
    \E r1, r2 \in Reqs :
        /\ HandledEvent(r1) /\ delivery[r1].state = "resolved"
        /\ trace[r1][3] = "Payment failure notification sent for event: " \o TypeOf(r1)
        /\ HandledEvent(r2) /\ delivery[r2].state = "rejected"

\* ------------------------------------------------------------------------
\* C14
\* ------------------------------------------------------------------------
\* C14: every POST /test appends "Manual test triggered" first, invokes the
\* send exactly once without rendering or classifying anything, and ends
\* with the success response when the send succeeded and with an error
\* response that carries the detail when it failed; the entry logged for the
\* outcome of the send is the one the webhook path logs; nothing escapes.
C14_TestTrigger ==
    /\ ~crashed
    /\ \A r \in Reqs :
          inbox[r].path = "/test" =>
              /\ pc[r] \in {"sending", "done"}
              /\ trace[r][1] = "Manual test triggered"
              /\ sends[r] = 1
              /\ renders[r] = 0
              /\ mail[r].subject = "Test: Stripe Payment Failure Monitor"
              /\ pc[r] = "sending" => (trace[r] = <<"Manual test triggered">>
                                        /\ responses[r] = <<>>)
              /\ (pc[r] = "done" /\ delivery[r].state = "resolved") =>
                    /\ trace[r] = << "Manual test triggered",
                                     "Email sent successfully to blakeecom02@gmail.com" >>
                    /\ Len(responses[r]) = 1
                    /\ responses[r][1].status = 200
                    /\ responses[r][1].body.success = TRUE
              /\ (pc[r] = "done" /\ delivery[r].state = "rejected") =>
                    /\ trace[r] = << "Manual test triggered",
                                     "Failed to send email: " \o delivery[r].message,
                                     "Test failed: " \o delivery[r].message >>
                    /\ responses[r]
                          = <<Response(500, [error |-> delivery[r].message])>>
              /\ pc[r] = "done" => delivery[r].state \in {"resolved", "rejected"}
              /\ \A q \in Reqs :
                    (pc[r] = "done" /\ HandledEvent(q) /\ delivery[q] = delivery[r]) =>
                        trace[q][2] = trace[r][2]

\* A test trigger whose send failed and a webhook whose send failed alike,
\* both handled to their end.
C14_Witness ==
    \E r, q \in Reqs :
        /\ inbox[r].path = "/test" /\ pc[r] = "done"
        /\ delivery[r] = [state |-> "rejected", message |-> "invalid_grant"]
        /\ HandledEvent(q) /\ delivery[q] = delivery[r]

\* ------------------------------------------------------------------------
\* C15
\* ------------------------------------------------------------------------
\* C15: a query leaves the log as it was: GET /logs answers with the last
\* min(20, size) entries, oldest first (all of them when the log holds fewer
\* than 20), and with the entry count, GET /health answers with the entry
\* count, and neither adds, removes nor reorders an entry; the log changes
\* only in steps that call addLog.
C15_QueriesLeaveLog ==
    [][ /\ \A r \in Reqs :
              (pc[r] = "idle" /\ pc'[r] = "done" /\ inbox'[r].method = "GET") =>
                  /\ logs' = logs
                  /\ appended' = appended
                  /\ Len(responses'[r]) = 1
                  /\ inbox'[r].path = "/logs" =>
                        LET answer == responses'[r][1].body
                            n == Min(LogsWindow, Len(logs))
                        IN  /\ Len(answer.logs) = n
                            /\ \A i \in 1..n :
                                  answer.logs[i] = logs[Len(logs) - n + i]
                            /\ answer.total_logs = Len(logs)
                  /\ inbox'[r].path = "/health" =>
                        responses'[r][1].body.logs_count = Len(logs)
        /\ logs' # logs => Len(appended') > Len(appended)
      ]_vars

\* GET /logs answered from a log of more than 20 entries, after GET /health
\* reported that count.
C15_Witness ==
    \E r, q \in Reqs :
        /\ pc[r] = "done" /\ inbox[r].path = "/logs"
        /\ Len(responses[r][1].body.logs) = LogsWindow
        /\ responses[r][1].body.total_logs > LogsWindow
        /\ pc[q] = "done" /\ inbox[q].path = "/health"
        /\ responses[q][1].body.logs_count = Len(logs)

\* GET /logs answered from a log of fewer than 20 entries: all of them.
C15_WitnessShort ==
    \E r \in Reqs :
        /\ pc[r] = "done" /\ inbox[r].path = "/logs"
        /\ Len(responses[r][1].body.logs) = responses[r][1].body.total_logs
        /\ responses[r][1].body.total_logs \in 2..(LogsWindow - 1)

\* ------------------------------------------------------------------------
\* C16
\* ------------------------------------------------------------------------
\* Two decimal digits of a number below 100.
TwoDigits(n) == ToString(n \div 10) \o ToString(n % 10)

\* The upper-case form of the currency codes of the inputs.
UpperCased(c) == IF c \in {"usd", "USD"} THEN "USD" ELSE "EUR"

\* Request r carried a charge.failed event that was rendered and handed to
\* the send.
ChargeRendered(r) ==
    /\ pc[r] \in {"sending", "done"}
    /\ inbox[r].path = "/webhook"
    /\ Has(inbox[r], "body")
    /\ TypeOf(r) = "charge.failed"
    /\ sends[r] = 1

\* C16: for a charge.failed event with a non-negative integer amount and a
\* currency string, the subject of the notification is the alert heading
\* followed by "$", amount div 100, a point, amount mod 100 in two digits,
\* a space and the upper-cased currency (2599 and "usd" give "$25.99 USD");
\* the body shows the same amount and shows the customer as "Guest" when
\* the event has none.
C16_ChargeSubject ==
    \A r \in Reqs :
        ChargeRendered(r) =>
            LET charge == inbox[r].body.data.object
                amount == "$" \o ToString(charge.amount \div 100) \o "."
                              \o TwoDigits(charge.amount % 100) \o " "
                              \o UpperCased(charge.currency)
            IN  /\ mail[r].subject = "Payment Failure Alert - " \o amount
                /\ (charge.amount = 2599 /\ charge.currency = "usd") =>
                      mail[r].subject = "Payment Failure Alert - $25.99 USD"
                /\ mail[r].body =
                      "<h2>Charge Failed</h2><p>Amount: " \o amount
                      \o "</p><p>Customer ID: "
                      \o (IF Has(charge, "customer") THEN charge.customer ELSE "Guest")
                      \o "</p><p>Failure Code: Unknown</p>"
                      \o "<p>Failure Message: No details provided</p>"
                      \o "<p>Charge ID: ch_1</p><p>Time: Date(1700000000000)</p>"
                      \o "<a href=https://dashboard.stripe.com/payments/ch_1>"
                      \o "Open Charge</a>"

\* A guest charge of 105 minor units in euros, rendered as "$1.05 EUR" and
\* handed to the send.
C16_Witness ==
    /\ ChargeRendered(1)
    /\ inbox[1].body.data.object.amount = 105
    /\ inbox[1].body.data.object.currency = "eur"
    /\ ~Has(inbox[1].body.data.object, "customer")
    /\ mail[1].subject = "Payment Failure Alert - $1.05 EUR"

\* ------------------------------------------------------------------------
\* C17
\* ------------------------------------------------------------------------
\* Request r carried an invoice.payment_failed event that was rendered and
\* handed to the send.
InvoiceRendered(r) ==
    /\ pc[r] \in {"sending", "done"}
    /\ inbox[r].path = "/webhook"
    /\ Has(inbox[r], "body")
    /\ TypeOf(r) = "invoice.payment_failed"
    /\ sends[r] = 1

\* The body of the notification of the invoice in_1 of the inputs, with the
\* given text after "Next Attempt: ".
InvoiceBodyWith(nextAttempt) ==
    "<h2>Invoice Payment Failed</h2><p>Amount: $10.00 EUR</p>"
    \o "<p>Customer ID: cus_2</p><p>Invoice Number: Draft</p>"
    \o "<p>Subscription ID: N/A</p><p>Attempt Count: 1</p>"
    \o "<p>Next Attempt: " \o nextAttempt \o "</p>"
    \o "<a href=https://dashboard.stripe.com/invoices/in_1>Open Invoice</a>"

\* C17: the body of the notification of a valid invoice.payment_failed event
\* says "No retry scheduled" when the event has no next_payment_attempt, and
\* shows the instant next_payment_attempt seconds after the epoch whenever
\* the event has one, 0 included.
C17_NextAttemptShown ==
    \A r \in Reqs :
        InvoiceRendered(r) =>
            LET invoice == inbox[r].body.data.object
            IN  mail[r].body =
                    InvoiceBodyWith(
                        IF Has(invoice, "next_payment_attempt")
                        THEN "Date(" \o (IF invoice.next_payment_attempt = 0 THEN "0"
                                         ELSE ToString(invoice.next_payment_attempt)
                                                \o "000") \o ")"
                        ELSE "No retry scheduled")

\* ------------------------------------------------------------------------
\* C18
\* ------------------------------------------------------------------------
\* The entries sendEmail logs for the outcome of a send.
SendOutcomeEntries ==
    {"Email sent successfully to blakeecom02@gmail.com"}
        \cup {"Failed to send email: " \o d : d \in Details}

\* The details a failed notification is logged with: those of a rejected
\* send and those of the renderer's TypeErrors.
FailureDetails ==
    Details \cup {TypeErrorReading(p) : p \in {"object", "customer", "toUpperCase"}}

\* The entries that end the handling of an event of the given type.
TerminalEntries(type) ==
    {"Ignored webhook event: " \o type,
     "Payment failure notification sent for event: " \o type}
        \cup {"Failed to send notification for " \o type \o ": " \o d :
                d \in FailureDetails}

\* The entries of one event, in the order of its state machine: the
\* "Received" entry once and first, the send-outcome entry (if any) second,
\* the terminal entry (if any) last and after both.
InStateMachineOrder(entries, type) ==
    /\ entries[1] = "Received webhook: " \o type
    /\ \A i \in 2..Len(entries) :
          /\ entries[i] \in SendOutcomeEntries \cup TerminalEntries(type)
          /\ entries[i] \in SendOutcomeEntries =>
                (i = 2 /\ Len(entries) = 3 /\ entries[3] \in TerminalEntries(type))
          /\ entries[i] \in TerminalEntries(type) => i = Len(entries)

\* C18: whatever the interleaving of the events in flight, a step of the
\* handling of one event appends that event's entries only, at the end of
\* what has been appended so far, and the event's own entries stay in the
\* order of its state machine: "Received webhook" first, the send-outcome
\* entry after it, the terminal entry last; no terminal entry is appended
\* for an event whose "Received" entry was not appended before it.
C18_OwnEntriesInOrder ==
    [][\A r \in Reqs :
          (trace'[r] # trace[r] /\ inbox'[r].path = "/webhook"
                /\ Has(inbox'[r], "body")) =>
              LET type == IF Has(inbox'[r].body, "type") THEN inbox'[r].body.type
                          ELSE "undefined"
              IN  /\ trace'[r] = trace[r] \o NewMessages
                  /\ \A q \in Reqs \ {r} : trace'[q] = trace[q]
                  /\ InStateMachineOrder(trace'[r], type)
      ]_vars

\* A charge.failed event handled to its end around a customer.created
\* event: the two entries of the second lie between the "Received" entry
\* and the send-outcome entry of the first.
C18_Witness ==
    appended = << "Stripe Payment Failure Monitor started on port 3000",
                  "Received webhook: charge.failed",
                  "Received webhook: customer.created",
                  "Ignored webhook event: customer.created",
                  "Failed to send email: quota exceeded",
                  "Failed to send notification for charge.failed: quota exceeded" >>

\* ------------------------------------------------------------------------
\* C19
\* ------------------------------------------------------------------------
\* C19: every POST /webhook is answered exactly once, and not before its
\* send has settled: a request that failed (its last entry is neither the
\* "Ignored" nor the "notification sent" entry) gets one 500 response with
\* an error and no success response; an ignored or a processed one gets the
\* success response once and no error response.
C19_OneResponse ==
    \A r \in Reqs :
        inbox[r].path = "/webhook" =>
            /\ pc[r] = "sending" => responses[r] = <<>>
            /\ pc[r] = "done" =>
                  LET last == IF trace[r] = <<>> THEN "none"
                              ELSE trace[r][Len(trace[r])]
                      succeeded ==
                          /\ Has(inbox[r], "body")
                          /\ last \in {"Ignored webhook event: " \o TypeOf(r),
                                       "Payment failure notification sent for event: "
                                            \o TypeOf(r)}
                  IN  /\ Len(responses[r]) = 1
                      /\ succeeded =>
                            responses[r][1]
                                = [status |-> 200,
                                   body |-> [received |-> TRUE, processed |-> TRUE]]
                      /\ ~succeeded =>
                            /\ responses[r][1].status = 500
                            /\ Has(responses[r][1].body, "error")
                            /\ ~Has(responses[r][1].body, "received")

\* Two webhooks answered: one whose send was rejected, with the 500, and
\* one whose send succeeded, with the success response.
C19_Witness ==
    \E r, q \in Reqs :
        /\ HandledEvent(r) /\ delivery[r].state = "rejected"
        /\ Len(responses[r]) = 1 /\ responses[r][1].status = 500
        /\ HandledEvent(q) /\ delivery[q].state = "resolved"
        /\ Len(responses[q]) = 1 /\ responses[q][1].status = 200

====
